---- MODULE Spec2Model ----
(***************************************************************************)
(* Model of libear_a/Execution.cc: the five Execution variants (Execve,    *)
(* Execvpe, ExecvP, Spawn, Spawnp), their pass-through and session-        *)
(* augmented apply, the ExecutionSerializer and the two forward overloads. *)
(*                                                                         *)
(* Pointers are modelled by identity: the caller's argv and envp arrays    *)
(* are the tokens "argv" and "envp", the buffer forward declares on its    *)
(* stack is the token "dst".  Buffer ranges are slot indices from 0; a     *)
(* cursor is a base address ("dst", or an absolute address) and an offset  *)
(* from it in slots.                                                       *)
(***************************************************************************)
EXTENDS Integers, Sequences, FiniteSets, TLC

VARIABLES
    variant,          \* dynamic type of the Execution object
    this,             \* its fields: path_/file_, search_path_, pid_, file_actions_, attrp_, argv_, envp_
    argv_mem,         \* the caller's argv array (null terminated)
    envp_mem,         \* the caller's envp array (null terminated)
    state,            \* State const *state: absent, or the session it yields
    resolvable,       \* the symbols the Resolver finds
    pc,               \* position in the call
    fp,               \* the function the lookup resolved
    estimatorAlive,   \* lifetime of the std::function bound to estimator_
    copierAlive,      \* lifetime of the std::function bound to copier_
    size,             \* forward: number of slots of dst (-1: dst not declared)
    dst,              \* the slots stored to so far, index -> value (in or out of bounds)
    it,               \* forward: the cursor, a base address and an offset in slots
    range,            \* the [begin, end) handed to the variant's copier
    calls,            \* the invocations of resolved functions, in order
    result            \* what apply returned

vars == <<variant, this, argv_mem, envp_mem, state, resolvable, pc, fp,
          estimatorAlive, copierAlive, size, dst, it, range, calls, result>>

-----------------------------------------------------------------------------
(* Bounds *)

MaxArgvLen == 2
MaxSessionEst == 2
MaxRangeBegin == 1

-----------------------------------------------------------------------------
(* Values *)

NULL == "nullptr"
Indeterminate == "indeterminate"
\* the begin cursor and the end of dst, as a callee handed them as (cmd, args) sees them
CursorAsCmd == "(char*)it"
EndAsArgs == "dst+size"

command_separator == "--"
file_flag == "-f"
search_flag == "-s"

Variants == {"Execve", "Execvpe", "ExecvP", "Spawn", "Spawnp"}
ExecFamily == {"Execve", "Execvpe", "ExecvP"}
Symbols == {"execve", "execvpe", "execvP", "posix_spawn", "posix_spawnp"}
RetVals == {0, -1}
NoArg == "not-passed"

ArgElem(i) == IF i = 1 THEN "cc" ELSE IF i = 2 THEN "-c" ELSE "a.c"
ArgvArray(n) == [i \in 1..(n + 1) |-> IF i <= n THEN ArgElem(i) ELSE NULL]
EnvpArray == <<"PATH=/usr/bin", NULL>>

SessionElem(i) == IF i = 1 THEN "/path/to/helper" ELSE "session-data"
NoState == [present |-> FALSE, est |-> 0, out |-> <<>>]
Sessions == {[present |-> TRUE, est |-> e, out |-> [i \in 1..w |-> SessionElem(i)]] :
                <<e, w>> \in {p \in (0..MaxSessionEst) \X (0..MaxSessionEst) : p[2] <= p[1]}}

NoResult == [kind |-> "none", ret |-> 0]
Failure == [kind |-> "failure", ret |-> 0]
Crashed == [kind |-> "crashed", ret |-> 0]
Value(r) == [kind |-> "value", ret |-> r]

\* a cursor into (or past) dst
DstCursor(k) == [base |-> "dst", at |-> k]
\* the int a function returned, taken as the char const ** a copy returns:
\* 0 is the null address, -1 is zero-extended or sign-extended to a pointer
IntAsCursor(r) ==
    {[base |-> b, at |-> 0] :
        b \in IF r = 0 THEN {"0x0"} ELSE {"0xffffffff", "0xffffffffffffffff"}}

Min(a, b) == IF a < b THEN a ELSE b
Max(a, b) == IF a > b THEN a ELSE b

-----------------------------------------------------------------------------
(* Array utilities (libear_a/Array.h) *)

RECURSIVE ArrayLengthFrom(_, _)
ArrayLengthFrom(arr, i) ==
    IF i > Len(arr) \/ arr[i] = NULL THEN 0 ELSE 1 + ArrayLengthFrom(arr, i + 1)

\* ear::array::length: the count of leading non-null pointers
ArrayLength(arr) == ArrayLengthFrom(arr, 1)

\* ear::array::copy(src_begin, src_end, dst_begin, dst_end): the source range,
\* then a terminating null, never storing at or past dst_end; the stores in
\* order and the cursor one past the last of them.
ArrayCopy(src, dst_begin, dst_end) ==
    LET count == Min(Len(src) + 1, Max(0, dst_end - dst_begin))
    IN  [writes |-> [i \in 1..count |->
                        [at |-> dst_begin + i - 1,
                         val |-> IF i <= Len(src) THEN src[i] ELSE NULL]],
         ret |-> dst_begin + count]

\* [argv_begin, argv_begin + length(argv_))
ArgvRange(arr) == SubSeq(arr, 1, ArrayLength(arr))

-----------------------------------------------------------------------------
(* The estimator and copier lambdas of each variant *)

Execve_estimate(arr) == ArrayLength(arr) + 2
Execvpe_estimate(arr) == ArrayLength(arr) + 4
\* a faulty variant: the search flag and the search path are not counted
ExecvP_estimate_short(arr) == ArrayLength(arr) + 4
ExecvP_estimate(arr) == ArrayLength(arr) + 6
Spawn_estimate(arr) == ArrayLength(arr) + 2
\* a faulty variant: the file flag and the file are not counted
Spawnp_estimate_short(arr) == ArrayLength(arr) + 2
Spawnp_estimate(arr) == ArrayLength(arr) + 4

\* *it++ = v for each header slot, unchecked, then array::copy(.., it, end)
HeaderThenCopy(header, arr, begin, end) ==
    LET head == [i \in 1..Len(header) |-> [at |-> begin + i - 1, val |-> header[i]]]
        tail == ArrayCopy(ArgvRange(arr), begin + Len(header), end)
    IN  [writes |-> head \o tail.writes, ret |-> tail.ret]

Execve_copy(f, arr, begin, end) ==
    HeaderThenCopy(<<command_separator>>, arr, begin, end)
Execvpe_copy(f, arr, begin, end) ==
    HeaderThenCopy(<<file_flag, f.file, command_separator>>, arr, begin, end)
ExecvP_copy(f, arr, begin, end) ==
    HeaderThenCopy(<<file_flag, f.file, search_flag, f.search_path, command_separator>>,
                   arr, begin, end)
Spawn_copy(f, arr, begin, end) ==
    HeaderThenCopy(<<command_separator>>, arr, begin, end)
Spawnp_copy(f, arr, begin, end) ==
    HeaderThenCopy(<<file_flag, f.file, command_separator>>, arr, begin, end)

\* ExecutionSerializer::estimate for the variant's estimator
Estimator(v, arr) ==
    CASE v = "Execve" -> Execve_estimate(arr)
      [] v = "Execvpe" -> Execvpe_estimate(arr)
      [] v = "ExecvP" -> ExecvP_estimate(arr)
      [] v = "Spawn" -> Spawn_estimate(arr)
      [] v = "Spawnp" -> Spawnp_estimate(arr)

\* ExecutionSerializer::copy for the variant's copier
Copier(v, f, arr, begin, end) ==
    CASE v = "Execve" -> Execve_copy(f, arr, begin, end)
      [] v = "Execvpe" -> Execvpe_copy(f, arr, begin, end)
      [] v = "ExecvP" -> ExecvP_copy(f, arr, begin, end)
      [] v = "Spawn" -> Spawn_copy(f, arr, begin, end)
      [] v = "Spawnp" -> Spawnp_copy(f, arr, begin, end)

\* The session Serializable built from the state
Session_estimate(s) == s.est
Session_copy(s, begin, end) ==
    [writes |-> [i \in 1..Len(s.out) |-> [at |-> begin + i - 1, val |-> s.out[i]]],
     ret |-> begin + Len(s.out)]

\* the stores of a copy applied to the slots
RECURSIVE Store(_, _)
Store(mem, writes) ==
    IF writes = <<>> THEN mem
    ELSE Store((writes[1].at :> writes[1].val) @@ mem, Tail(writes))

-----------------------------------------------------------------------------
(* The calls that reach the resolved functions *)

Fields(v) ==
    [file |-> IF v \in {"Execve", "Spawn"} THEN "/usr/bin/cc" ELSE "cc",
     search_path |-> IF v = "ExecvP" THEN "/bin:/usr/bin" ELSE NoArg,
     pid |-> IF v \in ExecFamily THEN NoArg ELSE "pid",
     file_actions |-> IF v \in ExecFamily THEN NoArg ELSE "file_actions",
     attrp |-> IF v \in ExecFamily THEN NoArg ELSE "attrp",
     argv |-> "argv",
     envp |-> "envp"]

\* what a callee sees through the pointer it is handed
Deref(ptr) ==
    CASE ptr = "argv" -> argv_mem
      [] ptr = "envp" -> envp_mem
      [] ptr = "dst" -> [i \in 1..Max(size, 0) |->
                            IF (i - 1) \in DOMAIN dst THEN dst[i - 1] ELSE Indeterminate]
      [] OTHER -> <<>>

Invocation(fn, pid, path, search_path, file_actions, attrp, argv, envp, r) ==
    [fn |-> fn, pid |-> pid, path |-> path, search_path |-> search_path,
     file_actions |-> file_actions, attrp |-> attrp, argv |-> argv, envp |-> envp,
     vec |-> Deref(argv), ret |-> r]

\* fp(path_, argv_, envp_)
Execve_apply(f, fn, r) ==
    Invocation(fn, NoArg, f.file, NoArg, NoArg, NoArg, f.argv, f.envp, r)
\* fp(file_, argv_, envp_)
Execvpe_apply(f, fn, r) ==
    Invocation(fn, NoArg, f.file, NoArg, NoArg, NoArg, f.argv, f.envp, r)
\* a faulty variant: file and search path change places
ExecvP_apply_swapped(f, fn, r) ==
    Invocation(fn, NoArg, f.search_path, f.file, NoArg, NoArg, f.argv, NoArg, r)
\* fp(file_, search_path_, argv_)
ExecvP_apply(f, fn, r) ==
    Invocation(fn, NoArg, f.file, f.search_path, NoArg, NoArg, f.argv, NoArg, r)
\* fp(pid_, path_, file_actions_, attrp_, argv_, envp_)
Spawn_apply(f, fn, r) ==
    Invocation(fn, f.pid, f.file, NoArg, f.file_actions, f.attrp, f.argv, f.envp, r)
\* fp(pid_, file_, file_actions_, attrp_, argv_, envp_)
Spawnp_apply(f, fn, r) ==
    Invocation(fn, f.pid, f.file, NoArg, f.file_actions, f.attrp, f.argv, f.envp, r)

PassThroughCall(v, f, fn, r) ==
    CASE v = "Execve" -> Execve_apply(f, fn, r)
      [] v = "Execvpe" -> Execvpe_apply(f, fn, r)
      [] v = "ExecvP" -> ExecvP_apply(f, fn, r)
      [] v = "Spawn" -> Spawn_apply(f, fn, r)
      [] v = "Spawnp" -> Spawnp_apply(f, fn, r)

\* the lookup of each pass-through apply
PassThroughSymbol(v) ==
    CASE v = "Execve" -> "execve"
      [] v = "Execvpe" -> "execvpe"
      [] v = "ExecvP" -> "execvP"
      [] v = "Spawn" -> "posix_spawn"
      [] v = "Spawnp" -> "posix_spawnp"

\* the lookup of each augmented apply
AugmentedSymbol(v) ==
    CASE v \in ExecFamily -> "execve"
      [] v = "Spawn" -> "posix_spawn"
      [] v = "Spawnp" -> "posix_spawn"

\* a faulty variant: the merged vector is passed as the environment too
Exec_continuation_args_as_envp(f, fn, cmd, args, r) ==
    Invocation(fn, NoArg, cmd, NoArg, NoArg, NoArg, args, args, r)
\* forward(linker, ..): fp(cmd, args, envp)
Exec_continuation(f, fn, cmd, args, r) ==
    Invocation(fn, NoArg, cmd, NoArg, NoArg, NoArg, args, f.envp, r)
\* Spawn, Spawnp: fp(pid_, cmd, file_actions_, attrp_, args, envp_)
Spawn_continuation(f, fn, cmd, args, r) ==
    Invocation(fn, f.pid, cmd, NoArg, f.file_actions, f.attrp, args, f.envp, r)

Continuation(v, f, fn, cmd, args, r) ==
    IF v \in ExecFamily THEN Exec_continuation(f, fn, cmd, args, r)
    ELSE Spawn_continuation(f, fn, cmd, args, r)

\* dst[0], the command forward hands to the continuation
ForwardCmd(mem) == IF 0 \in DOMAIN mem THEN {mem[0]} ELSE {Indeterminate}

-----------------------------------------------------------------------------
(* The call, step by step *)

Init ==
    /\ variant \in Variants
    /\ this = Fields(variant)
    /\ argv_mem \in {ArgvArray(n) : n \in 0..MaxArgvLen}
    /\ envp_mem = EnvpArray
    /\ state \in {NoState} \cup Sessions
    /\ resolvable \in SUBSET Symbols
    /\ pc = "entry"
    /\ fp = "none"
    /\ estimatorAlive = FALSE
    /\ copierAlive = FALSE
    /\ size = -1
    /\ dst = <<>>
    /\ it = DstCursor(0)
    /\ range = [begin |-> 0, end |-> 0]
    /\ calls = <<>>
    /\ result = NoResult

\* Execution::apply(linker, state)
Dispatch ==
    /\ pc = "entry"
    /\ pc' = IF state.present THEN "augmented" ELSE "plain"
    /\ UNCHANGED <<variant, this, argv_mem, envp_mem, state, resolvable, fp,
                   estimatorAlive, copierAlive, size, dst, it, range, calls, result>>

\* X::apply(linker)
ApplyPassThrough ==
    /\ pc = "plain"
    /\ LET sym == PassThroughSymbol(variant)
       IN  IF sym \in resolvable
           THEN \E r \in RetVals :
                   /\ fp' = sym
                   /\ calls' = Append(calls, PassThroughCall(variant, this, sym, r))
                   /\ result' = Value(r)
           ELSE /\ result' = Failure
                /\ UNCHANGED <<fp, calls>>
    /\ pc' = "done"
    /\ UNCHANGED <<variant, this, argv_mem, envp_mem, state, resolvable,
                   estimatorAlive, copierAlive, size, dst, it, range>>

\* ExecutionSerializer execution(<estimator lambda>, <copier lambda>): each lambda
\* converts to a temporary std::function, and estimator_ and copier_ bind to them
ConstructSerializer ==
    /\ pc = IF variant \in ExecFamily THEN "augmented" ELSE "mapped"
    /\ estimatorAlive' = TRUE
    /\ copierAlive' = TRUE
    /\ pc' = "constructed"
    /\ UNCHANGED <<variant, this, argv_mem, envp_mem, state, resolvable, fp,
                   size, dst, it, range, calls, result>>

\* the end of that declaration: the temporaries are destroyed
EndOfFullExpression ==
    /\ pc = "constructed"
    /\ estimatorAlive' = FALSE
    /\ copierAlive' = FALSE
    /\ pc' = IF variant \in ExecFamily THEN "resolve" ELSE "forward"
    /\ UNCHANGED <<variant, this, argv_mem, envp_mem, state, resolvable, fp,
                   size, dst, it, range, calls, result>>

\* linker.<symbol>().map<int>(..) of the augmented apply
Resolve ==
    /\ pc = IF variant \in ExecFamily THEN "resolve" ELSE "augmented"
    /\ LET sym == AugmentedSymbol(variant)
       IN  IF sym \in resolvable
           THEN /\ fp' = sym
                /\ pc' = IF variant \in ExecFamily THEN "forward" ELSE "mapped"
                /\ UNCHANGED result
           ELSE /\ result' = Failure
                /\ pc' = "done"
                /\ UNCHANGED fp
    /\ UNCHANGED <<variant, this, argv_mem, envp_mem, state, resolvable,
                   estimatorAlive, copierAlive, size, dst, it, range, calls>>

\* A call through estimator_ or copier_ after the lifetime of the std::function
\* it refers to is undefined: the storage may still hold the callable (the call
\* then behaves as the lambda) or the call may end the process (the Crashed
\* branches of the forward steps).  The std::function of the continuation is a
\* temporary of the same function as the dead ones and may take the storage
\* copier_ refers to: execution.copy(it, end) then runs the continuation as
\* (cmd, args) = (it, end), which invokes the resolved function, stores nothing
\* and hands back that function's int as the cursor.
EstimateOutcomes == {Estimator(variant, Deref(this.argv))}

CopyOutcomes(begin, end) ==
    LET asLambda == Copier(variant, this, Deref(this.argv), begin, end)
        intact == [writes |-> asLambda.writes, ret |-> DstCursor(asLambda.ret),
                   invoked |-> <<>>]
        asContinuation ==
            UNION {{[writes |-> <<>>, ret |-> c,
                     invoked |-> <<Continuation(variant, this, fp,
                                                CursorAsCmd, EndAsArgs, r)>>] :
                       c \in IntAsCursor(r)} : r \in RetVals}
    IN  IF copierAlive THEN {intact} ELSE {intact} \cup asContinuation

\* forward: size, dst, it, end
ForwardEstimate ==
    /\ pc = "forward"
    /\ \/ \E e \in EstimateOutcomes :
            /\ size' = Session_estimate(state) + e
            /\ it' = DstCursor(0)
            /\ pc' = "session_copy"
            /\ UNCHANGED result
       \/ /\ ~estimatorAlive
          /\ result' = Crashed
          /\ pc' = "done"
          /\ UNCHANGED <<size, it>>
    /\ UNCHANGED <<variant, this, argv_mem, envp_mem, state, resolvable, fp,
                   estimatorAlive, copierAlive, dst, range, calls>>

\* it = session.copy(it, end)
ForwardSessionCopy ==
    /\ pc = "session_copy"
    /\ LET c == Session_copy(state, it.at, size)
       IN  /\ dst' = Store(dst, c.writes)
           /\ it' = DstCursor(c.ret)
    /\ pc' = "execution_copy"
    /\ UNCHANGED <<variant, this, argv_mem, envp_mem, state, resolvable, fp,
                   estimatorAlive, copierAlive, size, range, calls, result>>

\* it = execution.copy(it, end)
ForwardExecutionCopy ==
    /\ pc = "execution_copy"
    /\ range' = [begin |-> it.at, end |-> size]
    /\ \/ \E c \in CopyOutcomes(it.at, size) :
            /\ dst' = Store(dst, c.writes)
            /\ it' = c.ret
            /\ calls' = calls \o c.invoked
            /\ pc' = "call"
            /\ UNCHANGED result
       \/ /\ ~copierAlive
          /\ result' = Crashed
          /\ pc' = "done"
          /\ UNCHANGED <<dst, it, calls>>
    /\ UNCHANGED <<variant, this, argv_mem, envp_mem, state, resolvable, fp,
                   estimatorAlive, copierAlive, size>>

\* return function(dst[0], dst)
ForwardCall ==
    /\ pc = "call"
    /\ \E cmd \in ForwardCmd(dst), r \in RetVals :
          /\ calls' = Append(calls, Continuation(variant, this, fp, cmd, "dst", r))
          /\ result' = Value(r)
    /\ pc' = "done"
    /\ UNCHANGED <<variant, this, argv_mem, envp_mem, state, resolvable, fp,
                   estimatorAlive, copierAlive, size, dst, it, range>>

Next ==
    \/ Dispatch
    \/ ApplyPassThrough
    \/ ConstructSerializer
    \/ EndOfFullExpression
    \/ Resolve
    \/ ForwardEstimate
    \/ ForwardSessionCopy
    \/ ForwardExecutionCopy
    \/ ForwardCall

Spec == Init /\ [][Next]_vars

-----------------------------------------------------------------------------
(* The variant's own copy on a range of any size *)

MaxRangeLen == MaxArgvLen + 7

InitCopy ==
    /\ variant \in Variants
    /\ this = Fields(variant)
    /\ argv_mem \in {ArgvArray(n) : n \in 0..MaxArgvLen}
    /\ envp_mem = EnvpArray
    /\ state = NoState
    /\ resolvable = Symbols
    /\ pc = "copy_entry"
    /\ fp = "none"
    /\ estimatorAlive = TRUE
    /\ copierAlive = TRUE
    /\ range \in {[begin |-> b, end |-> b + l] : b \in 0..MaxRangeBegin, l \in 0..MaxRangeLen}
    /\ size = range.end
    /\ dst = <<>>
    /\ it = DstCursor(range.begin)
    /\ calls = <<>>
    /\ result = NoResult

\* execution.copy(begin, end) while the copier is alive
VariantCopy ==
    /\ pc = "copy_entry"
    /\ \E c \in CopyOutcomes(range.begin, range.end) :
          /\ dst' = Store(dst, c.writes)
          /\ it' = c.ret
          /\ calls' = calls \o c.invoked
    /\ pc' = "copied"
    /\ UNCHANGED <<variant, this, argv_mem, envp_mem, state, resolvable, fp,
                   estimatorAlive, copierAlive, size, range, result>>

NextCopy == VariantCopy

SpecCopy == InitCopy /\ [][NextCopy]_vars

-----------------------------------------------------------------------------
(* Properties *)

Done == pc = "done"
Augmented == state.present
Called == calls # <<>>
TheCall == calls[1]
Values(writes) == [i \in 1..Len(writes) |-> writes[i].val]
HeaderLen(v) == CASE v \in {"Execve", "Spawn"} -> 1
                  [] v \in {"Execvpe", "Spawnp"} -> 3
                  [] v = "ExecvP" -> 5
OwnEntryPoint(v) ==
    CASE v = "Execve" -> "execve"
      [] v = "Execvpe" -> "execvpe"
      [] v = "ExecvP" -> "execvP"
      [] v = "Spawn" -> "posix_spawn"
      [] v = "Spawnp" -> "posix_spawnp"

\* C1: in the augmented apply every slot a copy stores to (the session's, the
\* header slots, the argv elements and the terminating null) has an index in
\* [0, session.estimate() + execution.estimate()), the extent of dst.
C1_ForwardWritesInBounds ==
    (Augmented /\ size >= 0) => \A i \in DOMAIN dst : 0 <= i /\ i < size

C1_Witness ==
    /\ pc = "call" /\ Augmented /\ variant = "Spawnp"
    /\ Len(state.out) = MaxSessionEst
    /\ ArrayLength(argv_mem) = MaxArgvLen
    /\ size = MaxSessionEst + MaxArgvLen + 4
    /\ DOMAIN dst = 0..(size - 1)
    /\ dst[size - 1] = NULL

\* C2: on a range large enough, each variant's copy stores its header slots, the
\* n argv elements and one null, and its estimate (n+2 for Execve and Spawn, n+4
\* for Execvpe and Spawnp, n+6 for ExecvP) is at least that number of slots.
C2_EstimateCoversCopy ==
    (pc = "copied" /\ range.end - range.begin >= MaxArgvLen + 6) =>
        LET n == ArrayLength(argv_mem)
            stored == DOMAIN dst
        IN  /\ stored = range.begin .. (range.begin + HeaderLen(variant) + n)
            /\ \A i \in 1..n : dst[range.begin + HeaderLen(variant) + i - 1] = argv_mem[i]
            /\ dst[range.begin + HeaderLen(variant) + n] = NULL
            /\ it = DstCursor(range.begin + HeaderLen(variant) + n + 1)
            /\ Estimator(variant, argv_mem) >= Cardinality(stored)
            /\ Estimator(variant, argv_mem) =
                  n + (CASE variant \in {"Execve", "Spawn"} -> 2
                         [] variant \in {"Execvpe", "Spawnp"} -> 4
                         [] variant = "ExecvP" -> 6)

C2_Witness ==
    /\ pc = "copied"
    /\ variant = "ExecvP"
    /\ range.end - range.begin >= MaxArgvLen + 6
    /\ ArrayLength(argv_mem) = MaxArgvLen
    /\ Cardinality(DOMAIN dst) = MaxArgvLen + 6

\* C3: whatever the range [begin, end) a variant's copy is given, down to an
\* empty one, no slot it stores to (header, argv element or null) is at or past end.
C3_CopyRespectsEnd ==
    pc = "copied" => \A i \in DOMAIN dst : i < range.end

\* C4: the vector the augmented apply hands to the real function has the
\* session's copy output as its first session.estimate() elements and the
\* variant's copy output as the rest: [session][flags][separator][argv][null].
C4_MergedLayout ==
    (Done /\ Augmented) =>
        \A k \in 1..Len(calls) :
            LET vec == calls[k].vec
                s == Session_estimate(state)
                ownOut == Values(Copier(variant, this, argv_mem, 0, MaxArgvLen + 6).writes)
            IN  /\ Len(vec) = s + Len(ownOut)
                /\ SubSeq(vec, 1, s) = Values(Session_copy(state, 0, s).writes)
                /\ SubSeq(vec, s + 1, Len(vec)) = ownOut

\* C5 as stated: with no session state, the variant's own entry point is
\* resolved and invoked once with the original path/file, argv, envp (and pid,
\* file actions and attributes for the spawn family); no buffer is built and
\* apply returns what the function returned.
C5_PassThroughAsStated ==
    (Done /\ ~Augmented /\ OwnEntryPoint(variant) \in resolvable) =>
        /\ Len(calls) = 1
        /\ TheCall.fn = OwnEntryPoint(variant)
        /\ TheCall.path = this.file
        /\ TheCall.argv = this.argv
        /\ TheCall.envp = this.envp
        /\ variant \notin ExecFamily =>
              /\ TheCall.pid = this.pid
              /\ TheCall.file_actions = this.file_actions
              /\ TheCall.attrp = this.attrp
        /\ size = -1 /\ dst = <<>>
        /\ result = Value(TheCall.ret)

\* C5 amended: as stated, except that ExecvP's resolved function takes the
\* file, the search path and the argv pointer and is passed no envp.
C5_PassThrough ==
    (Done /\ ~Augmented /\ OwnEntryPoint(variant) \in resolvable) =>
        /\ Len(calls) = 1
        /\ TheCall.fn = OwnEntryPoint(variant)
        /\ TheCall.path = this.file
        /\ TheCall.argv = this.argv
        /\ TheCall.vec = argv_mem
        /\ IF variant = "ExecvP"
           THEN TheCall.envp = NoArg /\ TheCall.search_path = this.search_path
           ELSE TheCall.envp = this.envp /\ TheCall.search_path = NoArg
        /\ IF variant \in ExecFamily
           THEN TheCall.pid = NoArg /\ TheCall.file_actions = NoArg /\ TheCall.attrp = NoArg
           ELSE /\ TheCall.pid = this.pid
                /\ TheCall.file_actions = this.file_actions
                /\ TheCall.attrp = this.attrp
        /\ size = -1 /\ dst = <<>>
        /\ result = Value(TheCall.ret)

C5_Witness ==
    /\ Done /\ ~Augmented /\ variant = "ExecvP"
    /\ Len(calls) = 1 /\ TheCall.fn = "execvP" /\ TheCall.search_path = "/bin:/usr/bin"
    /\ result = Value(-1)

\* C6: in both applies, when the lookup of the variant's own entry
\* point fails, apply returns a failure, invokes nothing and copies nothing.
C6_OwnLookupFailureAsStated ==
    (Done /\ OwnEntryPoint(variant) \notin resolvable) =>
        result = Failure /\ calls = <<>> /\ dst = <<>>

\* C7: every invocation the augmented apply of Spawn makes is of what the
\* posix_spawn lookup resolved, and every one that of Spawnp makes is of what
\* the posix_spawnp lookup resolved, with the original pid, file actions and
\* attributes and the composed vector dst.
C7_SpawnRouting ==
    (Augmented /\ variant \notin ExecFamily) =>
        \A k \in 1..Len(calls) :
            /\ calls[k].fn = OwnEntryPoint(variant)
            /\ calls[k].pid = this.pid
            /\ calls[k].file_actions = this.file_actions
            /\ calls[k].attrp = this.attrp
            /\ calls[k].argv = "dst"

\* C8: every invocation the augmented apply makes passes the variant's
\* original envp pointer to the real function, and no step changes the
\* caller's argv or envp array.
C8_EnvpUnchanged ==
    /\ [](Augmented =>
             \A k \in 1..Len(calls) :
                 /\ calls[k].envp = this.envp
                 /\ this.envp = "envp"
                 /\ calls[k].argv # calls[k].envp)
    /\ [][argv_mem' = argv_mem /\ envp_mem' = envp_mem /\ this' = this]_vars

C8_Witness ==
    /\ Done /\ Augmented /\ variant = "Execvpe" /\ Len(calls) = 2
    /\ calls[1].path = CursorAsCmd /\ calls[1].argv = EndAsArgs /\ calls[1].envp = "envp"
    /\ calls[2].argv = "dst" /\ calls[2].envp = "envp"
    /\ envp_mem = EnvpArray /\ Deref(calls[2].envp) = EnvpArray

\* C9: with a session present, also one whose copy writes nothing, the path
\* of every invocation of the real function is the session's leading element,
\* never a header slot of the variant and never an unwritten slot.
C9_Path ==
    Augmented =>
        \A k \in 1..Len(calls) :
            /\ calls[k].path \notin {file_flag, command_separator, Indeterminate}
            /\ state.out # <<>> => calls[k].path = state.out[1]

\* C10: whenever forward is about to call execution.estimate() or
\* execution.copy(), the callables estimator_ and copier_ refer to are alive.
C10_CallablesAlive ==
    /\ pc = "forward" => estimatorAlive
    /\ pc = "execution_copy" => copierAlive

====
